---- MODULE Spec2Model ----
(***************************************************************************)
(* A model of DataStorageManager (src/data_storage_setup.py): the raw and  *)
(* processed dataset files, the SQLite database (its tables and the        *)
(* connections opened on it), the metadata registry file, and the          *)
(* operations load_raw_data, save_processed_data, get_transaction_count,   *)
(* get_high_value_transactions, get_data_summary and the re-construction   *)
(* of the manager on the same project root.  The other canned queries      *)
(* (fraud, legitimate, statistics, time range) are not modelled.           *)
(*                                                                         *)
(* Spec is the ingestion pipeline, SpecQuery adds the canned queries and   *)
(* the summary to it, SpecStage is the checkpointing of processed tables   *)
(* with the summary.                                                       *)
(*                                                                         *)
(* load_raw_data is modelled step by step (pc is the position inside the   *)
(* call), every other operation is one action.  The program is single      *)
(* threaded: while a load is running no other operation starts.            *)
(*                                                                         *)
(* I/O can fail.  Where the outcome of a failed library call is not        *)
(* decided by the source (a to_csv, to_sql or json.dump that raises        *)
(* part-way), the model takes every outcome the call can leave behind.     *)
(***************************************************************************)
EXTENDS Integers, Sequences, FiniteSets, TLC

\* ------------------------------------------------------------------ bounds
MaxRows == 2        \* rows of the longest input table
MaxLoads == 2       \* load_raw_data calls in one behaviour
MaxSaves == 2       \* save_processed_data calls in one behaviour
MaxOpenConns == 2   \* connections left open at once
MaxLimit == 2       \* largest limit passed to a canned query
MaxQueryLoads == 1  \* load_raw_data calls in one behaviour of SpecQuery

\* --------------------------------------------------------------- constants
expected_cols == {"Time", "Amount", "Class"}
HASH_UNAVAILABLE == "hash_unavailable"
DEFAULT_THRESHOLD == 1000

\* Names are sequences of characters where the program builds SQL text
\* from them, so that what SQLite makes of the text can be computed.
RAW_TABLE ==
  <<"r","a","w","_","t","r","a","n","s","a","c","t","i","o","n","s">>
PROCESSED_PREFIX == <<"p","r","o","c","e","s","s","e","d","_">>

DatasetNames == {"creditcard", "creditcard_fraud_2013"}
StageNames == {<<"c","l","e","a","n","e","d">>, <<"s","t","e","p","-","2">>}

RawPath(dataset_name) == "data/raw/" \o dataset_name \o ".csv"
ProcessedTable(stage_name) == PROCESSED_PREFIX \o stage_name

\* ------------------------------------------------------------ input tables
AllColumns == expected_cols \cup {"V1"}
Variants == {"legit", "mixed"}

\* Row i of an input table.  "legit" tables hold no fraud row and amounts
\* in ascending order, "mixed" tables hold fraud rows and tied amounts.
Cell(variant, i, col) ==
  CASE col = "Time" -> i
    [] col = "V1" -> 0
    [] col = "Amount" -> IF variant = "legit" THEN 500 * i
                         ELSE 2000 - 500 * (i % 2)
    [] col = "Class" -> IF variant = "legit" THEN 0 ELSE i % 2

MakeFrame(cols, variant, n) ==
  [columns |-> cols,
   rows |-> [i \in 1..n |-> [c \in cols |-> Cell(variant, i, c)]]]

ColumnChoices ==
  {AllColumns} \cup {expected_cols \ {c} : c \in expected_cols}

\* What a caller can pass as csv_path: a path that does not exist, a file
\* of zero bytes, or a CSV file with a header and n >= 0 rows.
NoFile == [exists |-> FALSE]
ZeroByteFile == [exists |-> TRUE, columns |-> {}, rows |-> <<>>]
CsvFiles ==
  {[exists |-> TRUE, columns |-> f.columns, rows |-> f.rows] :
     f \in {MakeFrame(cols, v, n) :
              cols \in ColumnChoices, v \in Variants, n \in 0..MaxRows}}
CsvInputs == {NoFile, ZeroByteFile} \cup CsvFiles

\* In-memory tables handed to save_processed_data.
Frames == {MakeFrame(AllColumns, v, n) : v \in Variants, n \in 0..MaxRows}

\* ------------------------------------------------------------------- state
VARIABLES
  rawFiles,    \* data/raw/<dataset_name>.csv, per dataset name
  procFiles,   \* data/processed/<stage_name>.csv, per stage name
  tables,      \* the database: table name -> rows, for the tables that exist
  registry,    \* metadata/data_registry.json
  openConns,   \* connections opened by finished operations and not closed
  clock,       \* datetime.now(), as the number of load calls begun
  saves,       \* save_processed_data calls begun
  pc,          \* position inside load_raw_data, "idle" between operations
  call,        \* the running (or last) load_raw_data call: arguments, locals
  pre,         \* files, tables and registry as the last load call found them
  ret,         \* what the last operation returned or raised ("running"
               \* while a load is inside its steps)
  hist,        \* the load_raw_data calls that returned, oldest first
  lastSave     \* the last save_processed_data call: arguments and outcome

vars == <<rawFiles, procFiles, tables, registry, openConns, clock, saves,
          pc, call, pre, ret, hist, lastSave>>

AbsentFile == [kind |-> "absent"]
PartialFile == [kind |-> "partial"]
CsvOf(df) == [kind |-> "csv", columns |-> df.columns, rows |-> df.rows]

AbsentRegistry == [state |-> "absent", datasets |-> <<>>]
CorruptRegistry == [state |-> "unparsable", datasets |-> <<>>]

NoCall == [op |-> "none"]
Snapshot == [rawFiles |-> rawFiles, tables |-> tables, registry |-> registry]

\* The state after DataStorageManager(project_root) on a fresh root: the
\* directories exist and hold no file, the database holds no table.
Init ==
  /\ rawFiles = [n \in DatasetNames |-> AbsentFile]
  /\ procFiles = [s \in StageNames |-> AbsentFile]
  /\ tables = <<>>
  /\ registry = AbsentRegistry
  /\ openConns = 0
  /\ clock = 0
  /\ saves = 0
  /\ pc = "idle"
  /\ call = NoCall
  /\ pre = Snapshot
  /\ ret = [op |-> "__init__", status |-> "ok"]
  /\ hist = <<>>
  /\ lastSave = NoCall

\* ------------------------------------------------------------- load_raw_data
\* A faulty variant of MissingCols that forgets the Amount column.
MissingColsNoAmount(columns) ==
  {col \in expected_cols \ {"Amount"} : col \notin columns}

\* missing_cols of line 108.
MissingCols(columns) == {col \in expected_cols : col \notin columns}

\* Lines 96-110: the exception the checks raise for a csv_path, "ok" if none.
\* pd.read_csv raises EmptyDataError, a ValueError, on a file of zero bytes.
Validate(csv) ==
  IF ~csv.exists THEN "FileNotFoundError"
  ELSE IF csv.columns = {} THEN "ValueError"
  ELSE IF csv.rows = <<>> THEN "ValueError"
  ELSE IF MissingCols(csv.columns) # {} THEN "ValueError"
  ELSE "ok"

\* Lines 92-112.
LoadBegin ==
  /\ pc = "idle"
  /\ clock < MaxLoads
  /\ \E csv \in CsvInputs, dataset_name \in DatasetNames :
       LET status == Validate(csv) IN
       /\ call' = [op |-> "load_raw_data", csv |-> csv,
                   dataset_name |-> dataset_name, data_hash |-> "",
                   reached |-> {}, metaError |-> FALSE]
       /\ pre' = Snapshot
       /\ clock' = clock + 1
       /\ IF status = "ok"
            THEN /\ pc' = "hash"
                 /\ ret' = [op |-> "load_raw_data", status |-> "running"]
            ELSE /\ pc' = "idle"
                 /\ ret' = [op |-> "load_raw_data", status |-> status]
  /\ UNCHANGED <<rawFiles, procFiles, tables, registry, openConns, saves, hist, lastSave>>

\* The loaded table df of a call that passed the checks.
DfOf(c) == [columns |-> c.csv.columns, rows |-> c.csv.rows]

\* Lines 346-361: the digest of the table's content, or the sentinel when
\* hashing raised.  The digest is modelled as a text that names the content.
CalculateDataHash(df, hashFails) ==
  IF hashFails THEN HASH_UNAVAILABLE ELSE "sha256:" \o ToString(df.rows)

\* A faulty variant of NextStep: the table is replaced before the raw file
\* is written.
NextStepSqlFirst(step) ==
  CASE step = "hash" -> "sql"
    [] step = "sql" -> "raw"
    [] step = "raw" -> "meta"
    [] step = "meta" -> "done"

\* Lines 114-136: the statement that follows each step of a load.
NextStep(step) ==
  CASE step = "hash" -> "raw"
    [] step = "raw" -> "sql"
    [] step = "sql" -> "meta"
    [] step = "meta" -> "done"

\* Line 115.
LoadHash ==
  /\ pc = "hash"
  /\ \E hashFails \in BOOLEAN :
       call' = [call EXCEPT !.data_hash = CalculateDataHash(DfOf(call), hashFails),
                            !.reached = @ \cup {"hash"}]
  /\ pc' = NextStep("hash")
  /\ UNCHANGED <<rawFiles, procFiles, tables, registry, openConns, clock,
                 saves, pre, ret, hist, lastSave>>

\* df.to_csv(path): what the file at path can be afterwards.  A to_csv that
\* raises either could not open the file or leaves it partly written.
ToCsvOutcomes(file, df) ==
  {[file |-> CsvOf(df), status |-> "ok"],
   [file |-> file, status |-> "OSError"],
   [file |-> PartialFile, status |-> "OSError"]}

\* Lines 118-120.
LoadWriteRaw ==
  /\ pc = "raw"
  /\ \E o \in ToCsvOutcomes(rawFiles[call.dataset_name], DfOf(call)) :
       /\ rawFiles' = [rawFiles EXCEPT ![call.dataset_name] = o.file]
       /\ IF o.status = "ok"
            THEN /\ pc' = NextStep("raw")
                 /\ call' = [call EXCEPT !.reached = @ \cup {"raw"}]
                 /\ ret' = ret
            ELSE /\ pc' = "idle"
                 /\ call' = call
                 /\ ret' = [op |-> "load_raw_data", status |-> o.status]
  /\ UNCHANGED <<procFiles, tables, registry, openConns, clock, saves, pre, hist, lastSave>>

\* ------------------------------------------------------------ _save_to_sqlite
\* A faulty variant of Replace: if_exists='append'.
ReplaceAppend(tbls, table_name, rows) ==
  [t \in DOMAIN tbls \cup {table_name} |->
     IF t = table_name
       THEN (IF t \in DOMAIN tbls THEN tbls[t] ELSE <<>>) \o rows
       ELSE tbls[t]]

\* Line 162: tables with table_name replaced by rows (if_exists='replace').
Replace(tbls, table_name, rows) ==
  [t \in DOMAIN tbls \cup {table_name} |->
     IF t = table_name THEN rows ELSE tbls[t]]

\* Lines 158-180: the database after the call, whether it raised, and the
\* connection it left open.  conn.close() (line 172) is reached only when
\* nothing raised.  A to_sql that raises leaves the table as it was or
\* dropped and re-created without rows; a failing CREATE INDEX comes after
\* to_sql has replaced the table.
SaveToSqliteOutcomes(tbls, df, table_name) ==
  {[tables |-> Replace(tbls, table_name, df.rows), status |-> "ok", leaked |-> 0],
   [tables |-> tbls, status |-> "sqlite3.Error", leaked |-> 0],
   [tables |-> tbls, status |-> "sqlite3.Error", leaked |-> 1],
   [tables |-> Replace(tbls, table_name, <<>>), status |-> "sqlite3.Error",
    leaked |-> 1]}
  \cup
  (IF table_name = RAW_TABLE
     THEN {[tables |-> Replace(tbls, table_name, df.rows),
            status |-> "sqlite3.Error", leaked |-> 1]}
     ELSE {})

\* Line 123.
LoadSaveSqlite ==
  /\ pc = "sql"
  /\ \E o \in SaveToSqliteOutcomes(tables, DfOf(call), RAW_TABLE) :
       /\ openConns + o.leaked <= MaxOpenConns
       /\ tables' = o.tables
       /\ openConns' = openConns + o.leaked
       /\ IF o.status = "ok"
            THEN /\ pc' = NextStep("sql")
                 /\ call' = [call EXCEPT !.reached = @ \cup {"sql"}]
                 /\ ret' = ret
            ELSE /\ pc' = "idle"
                 /\ call' = call
                 /\ ret' = [op |-> "load_raw_data", status |-> o.status]
  /\ UNCHANGED <<rawFiles, procFiles, registry, clock, saves, pre, hist, lastSave>>

\* ------------------------------------------------------------ _record_metadata
\* Lines 385-388.
Entry(now, dataset_name, data_hash, df, file_path) ==
  [timestamp |-> now, dataset_name |-> dataset_name, data_hash |-> data_hash,
   row_count |-> Len(df.rows), column_count |-> Cardinality(df.columns),
   file_path |-> file_path]

\* A faulty variant of RecordMetadataOutcomes that lets the exception out.
RecordMetadataReraise(reg, entry) ==
  IF reg.state = "unparsable"
    THEN {[registry |-> reg, error |-> TRUE, raised |-> TRUE]}
    ELSE {[registry |-> [state |-> "ok", datasets |-> Append(reg.datasets, entry)],
           error |-> FALSE, raised |-> FALSE],
          [registry |-> reg, error |-> TRUE, raised |-> TRUE],
          [registry |-> CorruptRegistry, error |-> TRUE, raised |-> TRUE]}

\* A faulty variant of RecordMetadataOutcomes that starts a new list on
\* every call instead of reading the file.
RecordMetadataOverwrite(reg, entry) ==
  IF reg.state = "unparsable"
    THEN {[registry |-> reg, error |-> TRUE, raised |-> FALSE]}
    ELSE {[registry |-> [state |-> "ok", datasets |-> <<entry>>],
           error |-> FALSE, raised |-> FALSE],
          [registry |-> reg, error |-> TRUE, raised |-> FALSE],
          [registry |-> CorruptRegistry, error |-> TRUE, raised |-> FALSE]}

\* Lines 374-399: the registry file after the call, whether an exception
\* was caught (error) and whether one left the method (raised).  json.load
\* raises on an unparsable file; open(path, 'w') either raises and leaves
\* the file alone or truncates it, and a json.dump that raises after that
\* leaves a truncated or partly written document.
RecordMetadataOutcomes(reg, entry) ==
  IF reg.state = "unparsable"
    THEN {[registry |-> reg, error |-> TRUE, raised |-> FALSE]}
    ELSE {[registry |-> [state |-> "ok", datasets |-> Append(reg.datasets, entry)],
           error |-> FALSE, raised |-> FALSE],
          [registry |-> reg, error |-> TRUE, raised |-> FALSE],
          [registry |-> CorruptRegistry, error |-> TRUE, raised |-> FALSE]}

\* Lines 126-132.
LoadRecordMetadata ==
  /\ pc = "meta"
  /\ \E o \in RecordMetadataOutcomes(registry,
                Entry(clock, call.dataset_name, call.data_hash, DfOf(call),
                      RawPath(call.dataset_name))) :
       /\ registry' = o.registry
       /\ IF o.raised
            THEN /\ pc' = "idle"
                 /\ call' = [call EXCEPT !.metaError = o.error]
                 /\ ret' = [op |-> "load_raw_data", status |-> "Exception"]
            ELSE /\ pc' = NextStep("meta")
                 /\ call' = [call EXCEPT !.metaError = o.error,
                                         !.reached = @ \cup {"meta"}]
                 /\ ret' = ret
  /\ UNCHANGED <<rawFiles, procFiles, tables, openConns, clock, saves, pre, hist, lastSave>>

\* Lines 134-136.  The Class column holds numbers (0 or 1), so the
\* df['Class'].mean() of line 134 does not raise.
LoadReturn ==
  /\ pc = "done"
  /\ pc' = "idle"
  /\ ret' = [op |-> "load_raw_data", status |-> "ok", value |-> DfOf(call)]
  /\ hist' = Append(hist, [dataset_name |-> call.dataset_name,
                           df |-> DfOf(call), metaError |-> call.metaError])
  /\ UNCHANGED <<rawFiles, procFiles, tables, registry, openConns, clock,
                 saves, call, pre, lastSave>>

\* ------------------------------------------------------------------ __init__
\* Lines 47-69 on a root that exists: mkdir(exist_ok=True) changes nothing.
\* A new manager is a new process or a new object; the connections the old
\* one left open go with it (a new process) or stay open.
Construct ==
  /\ pc = "idle"
  /\ \E n \in {0, openConns} : openConns' = n
  /\ UNCHANGED <<rawFiles, procFiles, tables, registry, clock, saves, pc,
                 call, pre, ret, hist, lastSave>>

\* sqlite3 closes a connection that was left open when the object is
\* finalized; the source does not decide when that is.
Finalize ==
  /\ pc = "idle"
  /\ openConns > 0
  /\ openConns' = openConns - 1
  /\ UNCHANGED <<rawFiles, procFiles, tables, registry, clock, saves, pc,
                 call, pre, ret, hist, lastSave>>

Next ==
  \/ LoadBegin
  \/ LoadHash
  \/ LoadWriteRaw
  \/ LoadSaveSqlite
  \/ LoadRecordMetadata
  \/ LoadReturn
  \/ Construct
  \/ Finalize

Spec == Init /\ [][Next]_vars

\* ------------------------------------------------------------------ queries
\* The SQL text of the canned queries, as the parts SQLite reads from it.
\* An optional limit is the empty set (None) or the set of its one value.
NoLimit == {}
Limits == {NoLimit} \cup {{k} : k \in 0..MaxLimit}
Thresholds == {500, DEFAULT_THRESHOLD, 2000}

\* Lines 315-317: `if limit:` is false for None and for 0.
HighValueSql(amount_threshold, limit) ==
  [kind |-> "select", from |-> RAW_TABLE, minAmount |-> amount_threshold,
   orderBy |-> "Amount DESC",
   limit |-> IF limit # NoLimit /\ limit # {0} THEN limit ELSE NoLimit]

\* Lines 280-286.
CountSql == [kind |-> "counts", from |-> RAW_TABLE]

Min(a, b) == IF a <= b THEN a ELSE b

\* SUM over the rows of a table: NULL (the empty set) when there is no row.
RECURSIVE SumOf(_)
SumOf(xs) == IF xs = <<>> THEN 0 ELSE Head(xs) + SumOf(Tail(xs))
SqlSum(xs) == IF xs = <<>> THEN {} ELSE {SumOf(xs)}

\* The results SQLite can give for a SELECT ... WHERE Amount >= t ORDER BY
\* Amount DESC [LIMIT k]: rows of equal Amount come in any order.
SelectResults(rows, q) ==
  LET M == {i \in 1..Len(rows) : rows[i].Amount >= q.minAmount}
      n == Cardinality(M)
      orders == {f \in [1..n -> M] :
                   /\ \A i, j \in 1..n : i # j => f[i] # f[j]
                   /\ \A i, j \in 1..n :
                        i < j => rows[f[i]].Amount >= rows[f[j]].Amount}
      kept == IF q.limit = NoLimit THEN n
              ELSE Min(n, CHOOSE k \in q.limit : TRUE)
  IN {[i \in 1..kept |-> rows[f[i]]] : f \in orders}

\* The one row of SELECT COUNT(*), SUM(CASE ...), SUM(CASE ...).
CountResult(rows) ==
  [total |-> Len(rows),
   fraud |-> SqlSum([i \in 1..Len(rows) |-> IF rows[i].Class = 1 THEN 1 ELSE 0]),
   legitimate |-> SqlSum([i \in 1..Len(rows) |-> IF rows[i].Class = 0 THEN 1 ELSE 0])]

\* pd.read_sql_query(sql_query, conn), line 199.
Execute(tbls, q) ==
  IF q.from \notin DOMAIN tbls
    THEN {[status |-> "DatabaseError"]}
    ELSE IF q.kind = "select"
      THEN {[status |-> "ok", value |-> r] : r \in SelectResults(tbls[q.from], q)}
      ELSE {[status |-> "ok", value |-> <<CountResult(tbls[q.from])>>]}

\* Lines 197-208: the result or the exception, and the connection left
\* open.  conn.close() (line 200) is reached only when nothing raised.
QueryDataOutcomes(tbls, q) ==
  {[status |-> "sqlite3.Error", leaked |-> 0]}
  \cup {IF r.status = "ok"
          THEN [status |-> "ok", value |-> r.value, leaked |-> 0]
          ELSE [status |-> r.status, leaked |-> 1] : r \in Execute(tbls, q)}

\* round(x, 3) of x = num / den, in thousandths: to the nearest, ties to even.
RoundHalfEven(num, den) ==
  LET q == num \div den
      r == num % den
  IN IF 2 * r < den THEN q
     ELSE IF 2 * r > den THEN q + 1
     ELSE IF q % 2 = 0 THEN q ELSE q + 1

\* Lines 288-298 on the row the query returned.  int(None) raises
\* TypeError.  fraud_rate is in thousandths of a percent.
TransactionCount(row) ==
  IF row.fraud = {} \/ row.legitimate = {}
    THEN [status |-> "TypeError"]
    ELSE LET total == row.total
             fraud == CHOOSE x \in row.fraud : TRUE
             legitimate == CHOOSE x \in row.legitimate : TRUE
         IN [status |-> "ok",
             value |-> [total |-> total, fraud |-> fraud,
                        legitimate |-> legitimate,
                        fraud_rate |-> IF total > 0
                                         THEN RoundHalfEven(fraud * 100 * 1000, total)
                                         ELSE 0]]

\* Lines 272-301.
GetTransactionCount ==
  /\ pc = "idle"
  /\ \E o \in QueryDataOutcomes(tables, CountSql) :
       /\ openConns + o.leaked <= MaxOpenConns
       /\ openConns' = openConns + o.leaked
       /\ ret' = IF o.status = "ok"
                   THEN [op |-> "get_transaction_count"] @@ TransactionCount(o.value[1])
                   ELSE [op |-> "get_transaction_count", status |-> o.status]
  /\ UNCHANGED <<rawFiles, procFiles, tables, registry, clock, saves, pc,
                 call, pre, hist, lastSave>>

\* Lines 303-321.
GetHighValueTransactions ==
  /\ pc = "idle"
  /\ \E amount_threshold \in Thresholds, limit \in Limits :
       \E o \in QueryDataOutcomes(tables, HighValueSql(amount_threshold, limit)) :
         /\ openConns + o.leaked <= MaxOpenConns
         /\ openConns' = openConns + o.leaked
         /\ ret' = [op |-> "get_high_value_transactions",
                    amount_threshold |-> amount_threshold, limit |-> limit]
                   @@ (IF o.status = "ok"
                         THEN [status |-> "ok", value |-> o.value]
                         ELSE [status |-> o.status])
  /\ UNCHANGED <<rawFiles, procFiles, tables, registry, clock, saves, pc,
                 call, pre, hist, lastSave>>

\* ----------------------------------------------------------- get_data_summary
IdentChars ==
  {"a","b","c","d","e","f","g","h","i","j","k","l","m","n","o","p","q","r",
   "s","t","u","v","w","x","y","z","0","1","2","3","4","5","6","7","8","9","_"}
Digits == {"0","1","2","3","4","5","6","7","8","9"}

\* Whether SQLite reads the unquoted text of a name as one identifier.
BareIdentifier(name) ==
  /\ name # <<>>
  /\ name[1] \notin Digits
  /\ \A i \in 1..Len(name) : name[i] \in IdentChars

\* Lines 437-462: the summary or the exception, and the connection left
\* open.  Line 452 puts each table name into the query text unquoted, and
\* conn.close() (line 456) is reached only when nothing raised.
DataSummaryOutcomes(tbls) ==
  {[status |-> "sqlite3.Error", leaked |-> 0],
   [status |-> "sqlite3.Error", leaked |-> 1]}
  \cup
  (IF \A t \in DOMAIN tbls : BareIdentifier(t)
     THEN {[status |-> "ok", leaked |-> 0,
            value |-> [t \in DOMAIN tbls |-> [row_count |-> Len(tbls[t])]]]}
     ELSE {[status |-> "sqlite3.OperationalError", leaked |-> 1]})

GetDataSummary ==
  /\ pc = "idle"
  /\ \E o \in DataSummaryOutcomes(tables) :
       /\ openConns + o.leaked <= MaxOpenConns
       /\ openConns' = openConns + o.leaked
       /\ ret' = IF o.status = "ok"
                   THEN [op |-> "get_data_summary", status |-> "ok",
                         value |-> o.value]
                   ELSE [op |-> "get_data_summary", status |-> o.status]
  /\ UNCHANGED <<rawFiles, procFiles, tables, registry, clock, saves, pc,
                 call, pre, hist, lastSave>>

\* ------------------------------------------------------- save_processed_data
\* Lines 417-429: the file is written first, then the table; either step
\* raising ends the call.
SaveProcessedData ==
  /\ pc = "idle"
  /\ saves < MaxSaves
  /\ saves' = saves + 1
  /\ \E df \in Frames, stage_name \in StageNames :
       \E f \in ToCsvOutcomes(procFiles[stage_name], df) :
         /\ procFiles' = [procFiles EXCEPT ![stage_name] = f.file]
         /\ IF f.status # "ok"
              THEN /\ UNCHANGED <<tables, openConns>>
                   /\ ret' = [op |-> "save_processed_data", status |-> f.status]
              ELSE \E o \in SaveToSqliteOutcomes(tables, df,
                                                 ProcessedTable(stage_name)) :
                     /\ openConns + o.leaked <= MaxOpenConns
                     /\ tables' = o.tables
                     /\ openConns' = openConns + o.leaked
                     /\ ret' = [op |-> "save_processed_data", status |-> o.status]
         /\ lastSave' = [op |-> "save_processed_data", df |-> df,
                         stage_name |-> stage_name, status |-> ret'.status]
  /\ UNCHANGED <<rawFiles, registry, clock, pc, call, pre, hist>>

\* The queries read raw_transactions, which is what the last load left:
\* loads before it add nothing to what they can see.
FirstLoadBegin == clock < MaxQueryLoads /\ LoadBegin

NextQuery ==
  \/ FirstLoadBegin
  \/ LoadHash
  \/ LoadWriteRaw
  \/ LoadSaveSqlite
  \/ LoadRecordMetadata
  \/ LoadReturn
  \/ Construct
  \/ Finalize
  \/ GetTransactionCount
  \/ GetHighValueTransactions
  \/ GetDataSummary

SpecQuery == Init /\ [][NextQuery]_vars

NextStage ==
  \/ SaveProcessedData
  \/ GetDataSummary
  \/ Construct
  \/ Finalize

SpecStage == Init /\ [][NextStage]_vars

\* ------------------------------------------------------------------ helpers
IsPrefix(s, t) == Len(s) <= Len(t) /\ \A i \in 1..Len(s) : s[i] = t[i]

\* The entries a reader of the registry file gets.
Entries(reg) == IF reg.state = "ok" THEN reg.datasets ELSE <<>>

EntryFields ==
  {"timestamp", "dataset_name", "data_hash", "row_count", "column_count",
   "file_path"}

IdleAfterLoad == pc = "idle" /\ call.op = "load_raw_data"

\* The last two loads that returned were made under the same dataset name,
\* and the second of them is the last operation finished.
TwoLoadsSameName ==
  /\ IdleAfterLoad
  /\ ret.status = "ok"
  /\ Len(hist) >= 2
  /\ hist[Len(hist)].dataset_name = hist[Len(hist) - 1].dataset_name

\* The last two registry entries are those of the last two loads.
LastTwoEntriesAreTheirs ==
  LET es == Entries(registry)
      k == Len(es)
      n == Len(hist)
  IN /\ k >= 2
     /\ \A j \in 0..1 :
          /\ es[k - j].dataset_name = hist[n - j].dataset_name
          /\ es[k - j].row_count = Len(hist[n - j].df.rows)

NoAppendFailed == \A i \in 1..Len(hist) : ~hist[i].metaError

\* --------------------------------------------------------------------- C1
\* C1 as stated: after two successful loads under the same dataset name,
\* raw_transactions holds exactly the rows of the second table and the
\* registry holds an entry for each of the two loads.
C1_AsStated ==
  TwoLoadsSameName =>
    /\ RAW_TABLE \in DOMAIN tables
    /\ tables[RAW_TABLE] = hist[Len(hist)].df.rows
    /\ LastTwoEntriesAreTheirs

\* C1 as amended: after two successful loads under the same dataset name,
\* raw_transactions holds exactly the rows of the second table; the
\* registry holds an entry for each of the two loads when neither load's
\* registry append failed.
C1_ReplacedAndRecorded ==
  TwoLoadsSameName =>
    /\ RAW_TABLE \in DOMAIN tables
    /\ tables[RAW_TABLE] = hist[Len(hist)].df.rows
    /\ (~hist[Len(hist)].metaError /\ ~hist[Len(hist) - 1].metaError
          => LastTwoEntriesAreTheirs)

C1_Witness ==
  /\ TwoLoadsSameName
  /\ hist[Len(hist)].df.rows # hist[Len(hist) - 1].df.rows
  /\ Len(hist[Len(hist)].df.rows) < Len(hist[Len(hist) - 1].df.rows)
  /\ ~hist[Len(hist)].metaError /\ ~hist[Len(hist) - 1].metaError
  /\ Len(Entries(registry)) = 2

\* --------------------------------------------------------------------- C2
\* C2 as stated: between operations, the registry holds exactly one entry
\* per load that returned successfully, each with the six fields.
C2_AsStated ==
  pc = "idle" =>
    /\ registry.state # "unparsable"
    /\ Len(registry.datasets) = Len(hist)
    /\ \A i \in 1..Len(registry.datasets) :
         DOMAIN registry.datasets[i] = EntryFields

\* C2 as amended: between operations, when no registry append of the loads
\* that returned has failed, the registry holds exactly one entry per such
\* load, each with the six fields, whether or not a hash is the sentinel.
C2_OneEntryPerLoad ==
  pc = "idle" /\ NoAppendFailed =>
    /\ registry.state # "unparsable"
    /\ Len(registry.datasets) = Len(hist)
    /\ \A i \in 1..Len(registry.datasets) :
         DOMAIN registry.datasets[i] = EntryFields

C2_Witness ==
  /\ pc = "idle"
  /\ NoAppendFailed
  /\ Len(hist) = 2
  /\ Len(Entries(registry)) = 2
  /\ registry.datasets[1].data_hash = HASH_UNAVAILABLE
  /\ registry.datasets[2].data_hash # HASH_UNAVAILABLE

\* --------------------------------------------------------------------- C3
\* C3 as stated: every step leaves the entries of the registry a prefix of
\* what they become; no entry is removed or changed.
C3_AppendOnly ==
  [][IsPrefix(Entries(registry), Entries(registry'))]_vars

\* --------------------------------------------------------------------- C4
\* The claim's rejected inputs: a path that does not exist, an empty file,
\* a file that lacks one of Time, Amount, Class.
Rejected(csv) ==
  \/ ~csv.exists
  \/ /\ csv.exists
     /\ (csv.rows = <<>> \/ ~({"Time", "Amount", "Class"} \subseteq csv.columns))

\* C4: a load of a path that does not exist raises FileNotFoundError, a
\* load of an empty file or of one that lacks a required column raises
\* ValueError, and either leaves the raw files, the tables and the registry
\* as the call found them.
C4_RejectedLoadWritesNothing ==
  IdleAfterLoad /\ Rejected(call.csv) =>
    /\ ret.status = (IF call.csv.exists THEN "ValueError" ELSE "FileNotFoundError")
    /\ Snapshot = pre

C4_Witness ==
  /\ IdleAfterLoad
  /\ call.csv.exists
  /\ call.csv.rows # <<>>
  /\ "Amount" \notin call.csv.columns
  /\ ret.status = "ValueError"
  /\ RAW_TABLE \in DOMAIN tables
  /\ Len(Entries(registry)) = 1

C9_SideEffectOrder ==
  call.op = "load_raw_data" =>
    /\ (Snapshot # pre => Validate(call.csv) = "ok")
    /\ (rawFiles # pre.rawFiles => "hash" \in call.reached)
    /\ (tables # pre.tables =>
          rawFiles[call.dataset_name] = CsvOf(DfOf(call)))
    /\ (registry # pre.registry =>
          /\ RAW_TABLE \in DOMAIN tables
          /\ tables[RAW_TABLE] = DfOf(call).rows)

C9_Witness ==
  /\ IdleAfterLoad
  /\ ret.status = "sqlite3.Error"
  /\ tables # pre.tables
  /\ registry = pre.registry
  /\ rawFiles[call.dataset_name] = CsvOf(DfOf(call))

\* --------------------------------------------------------------------- C6
\* Nearest thousandth of fraud / total * 100, in thousandths.
IsRate(r, fraud, total) ==
  IF total = 0 THEN r = 0
  ELSE LET d == r * total - fraud * 100 * 1000
       IN 2 * (IF d < 0 THEN -d ELSE d) <= total

CountOf(rows, class) == Cardinality({i \in 1..Len(rows) : rows[i].Class = class})

\* C6 as stated: whatever rows raw_transactions holds, none included, a
\* get_transaction_count whose query ran returns the total, the fraud and
\* legitimate counts and the rounded rate, and does not raise.
C6_AsStated ==
  /\ pc = "idle"
  /\ ret.op = "get_transaction_count"
  /\ ret.status # "sqlite3.Error"
  /\ RAW_TABLE \in DOMAIN tables
  => /\ ret.status = "ok"
     /\ ret.value.total = Len(tables[RAW_TABLE])
     /\ ret.value.fraud = CountOf(tables[RAW_TABLE], 1)
     /\ ret.value.legitimate = CountOf(tables[RAW_TABLE], 0)
     /\ IsRate(ret.value.fraud_rate, ret.value.fraud, ret.value.total)

\* --------------------------------------------------------------------- C7
Range(f) == {f[i] : i \in DOMAIN f}

\* C7 as stated: a get_high_value_transactions(t, limit) that returned
\* gives rows with Amount >= t in descending Amount order: all of them
\* without a limit, and with a limit k >= 0 at most k rows, the k largest.
C7_AsStated ==
  /\ pc = "idle"
  /\ ret.op = "get_high_value_transactions"
  /\ ret.status = "ok"
  => LET rows == tables[RAW_TABLE]
         res == ret.value
         M == {rows[i] : i \in {j \in 1..Len(rows) :
                                  rows[j].Amount >= ret.amount_threshold}}
     IN /\ Range(res) \subseteq M
        /\ Cardinality(Range(res)) = Len(res)
        /\ \A i, j \in 1..Len(res) : i < j => res[i].Amount >= res[j].Amount
        /\ IF ret.limit = NoLimit
             THEN Range(res) = M
             ELSE \A k \in ret.limit :
                    /\ Len(res) <= k
                    /\ Len(res) = Min(k, Cardinality(M))
                    /\ \A x \in Range(res), y \in M \ Range(res) :
                         x.Amount >= y.Amount

\* --------------------------------------------------------------------- C8
\* C8 as stated: after a save_processed_data(T, s) that succeeded, the
\* table processed_<s> holds as many rows as T, whatever it held before,
\* and a get_data_summary that follows reports that count for it.
C8_AsStated ==
  lastSave.op = "save_processed_data" /\ lastSave.status = "ok" =>
    LET t == ProcessedTable(lastSave.stage_name)
        n == Len(lastSave.df.rows)
    IN /\ t \in DOMAIN tables
       /\ Len(tables[t]) = n
       /\ (ret.op = "get_data_summary" /\ ret.status # "sqlite3.Error" =>
             /\ ret.status = "ok"
             /\ ret.value[t].row_count = n)

\* -------------------------------------------------------------------- C10
\* C10 as stated: between operations no connection that an earlier
\* operation opened is still open.
C10_AsStated == pc = "idle" => openConns = 0
====
